---- MODULE Spec2Model ----
(***************************************************************************)
(* The bots of pt-v5-autotasks: the draw-auction decision cycle            *)
(* (runDrawAuction), the liquidator (liquidatorArbitrageSwap) and the      *)
(* yield vault minter (runYieldVaultMintRate).                             *)
(*                                                                         *)
(* The repository carries two versions of the module:                     *)
(*   "award"  - src/unnamed/part_000 (startDraw / awardDraw, with the      *)
(*              force-award override and fixed gas limits);                *)
(*   "finish" - src/packages/library/src/drawAuction.ts (startDraw /       *)
(*              finishDraw, RngWitnet or RngBlockhash, gas buffer).        *)
(* config.variant says which one runs.  One behaviour is one process:      *)
(* a configuration fixed at start-up and a sequence of decision cycles.    *)
(*                                                                         *)
(* USD amounts are whole dollars.  A gas price is counted in units of      *)
(* 10^13 wei, so that 100000 gas at price 1 and native rate 1 costs $1.    *)
(* An ethers value that may be undefined is a sequence: <<>> or <<n>>, and *)
(* so is a JavaScript number that may be NaN.                              *)
(***************************************************************************)
EXTENDS Integers, Sequences, FiniteSets, TLC

VARIABLES
    config,             \* DrawAuctionConfig, immutable for the process
    context,            \* DrawAuctionContext of the current cycle
    pc,                 \* position of the cycle
    estimatedGasLimit,  \* result of the gas estimate made for the cost: <<>> or <<n>>
    costEstimate,       \* gas units and gas price the cost was computed from
    gasCostUsd,         \* gasCostUsd of checkStartDraw / checkAwardDraw
    netProfitUsd,       \* netProfitUsd of calculate*Profit
    profitable,         \* profitable of calculate*Profit
    forceAwardDraw,     \* forceAwardDraw of checkAwardDraw ("award" only)
    outcome,            \* how the cycle ended
    error,              \* what runDrawAuction raised to its caller
    calls,              \* collaborator calls made in this cycle
    sentTx,             \* what sendPopulatedTx was handed in this cycle
    steps,              \* the steps this cycle has completed, in order
    cycle,              \* number of the current cycle
    answers,            \* the collaborator calls of this cycle and their answers
    report,             \* what this cycle has printed
    inFlight,           \* transactions of this process submitted and not yet confirmed
    last,               \* the cycle before this one, when the collaborators are stubs
    \* liquidatorArbitrageSwap
    liquidationPairs,   \* the LiquidationPair contracts of the run, in list order
    swapPc,             \* position of the run
    pairIndex,          \* i + 1 of the for loop: the place of the pair in the list
    swapContext,        \* ArbLiquidatorContext of the pair in hand
    swapParams,         \* exactAmountIn and amountOutMin of the pair in hand
    pairLog,            \* what was done for each pair the loop took up, in order
    swapError,          \* what liquidatorArbitrageSwap raised to its caller
    \* runYieldVaultMintRate
    yieldVaultContracts,\* the YieldVault contracts of the run, in list order
    mintPc,             \* position of the run
    vaultIndex,         \* the place of the vault in hand in the list
    mintLog,            \* what was done for each vault the loop took up, in order
    mintError           \* what runYieldVaultMintRate raised to its caller

drawAuctionVars ==
    <<config, context, pc, estimatedGasLimit, costEstimate, gasCostUsd, netProfitUsd,
      profitable, forceAwardDraw, outcome, error, calls, sentTx, steps, cycle,
      answers, report, inFlight, last>>

liquidatorVars ==
    <<liquidationPairs, swapPc, pairIndex, swapContext, swapParams, pairLog, swapError>>

mintRateVars == <<yieldVaultContracts, mintPc, vaultIndex, mintLog, mintError>>

vars == <<drawAuctionVars, liquidatorVars, mintRateVars>>

----------------------------------------------------------------------------
(* Bounds and input sets *)

MaxCycles == 2

Variants == {"award", "finish"}

\* MIN_PROFIT_THRESHOLD_USD as the environment holds it: a string
ThresholdStrings == {"1", "4", "abc"}

\* REWARD_RECIPIENT as the environment holds it; "undefined": not set
RecipientStrings == {"recipient", "undefined"}

RewardsUsd == {1, 3, 12}

\* <<rngFeeEstimate (base units), rngFeeEstimateUsd>>
RngFees == {<<0, 0>>, <<5, 2>>}

NativeRatesUsd == {1}

GasPrices == {0, 1, 2}

\* what contract.estimateGas.* returns; <<>> stands for a rejected promise
GasEstimates == {<<>>, <<0>>, <<100000>>, <<300000>>}

\* <<canStartDraw, canAwardDraw>>: the contracts open one auction at a time
Eligibilities == {<<FALSE, FALSE>>, <<TRUE, FALSE>>, <<FALSE, TRUE>>}

----------------------------------------------------------------------------
(* Program constants *)

MAX_FORCE_RELAY_LOSS_THRESHOLD_USD == -5

DRAW_GAS_LIMIT_BUFFER == 100000

AWARD_DRAW_ESTIMATED_GAS_LIMIT == 400000

START_DRAW_GAS_LIMIT == 850000

AWARD_DRAW_GAS_LIMIT == 800000

----------------------------------------------------------------------------
(* Configuration *)

\* The configurations a process can be started with.  estimatorDefined:
\* drawAuction.ts calls getStartDrawEstimatedGasLimit, a name the file does
\* not define (it defines getRngWitnetStartDrawEstimatedGasLimit and
\* getRngBlockhashStartDrawEstimatedGasLimit).  A transpile-only build
\* raises ReferenceError at the call; a build that binds the name runs the
\* estimator of the RNG backend.  Both are kept.
\*
\* The environment a process is started in, as loadEnvVars (not in src) hands
\* it to the cli: strings, which the cli converts itself.
EnvVars ==
    { [variant |-> v, hasWitnet |-> w, estimatorDefined |-> d,
       MIN_PROFIT_THRESHOLD_USD |-> t, USE_FLASHBOTS |-> f,
       REWARD_RECIPIENT |-> r] :
         v \in Variants, w \in BOOLEAN, d \in BOOLEAN,
         t \in ThresholdStrings, f \in BOOLEAN, r \in RecipientStrings }

\* Number(string) of JavaScript on the strings of ThresholdStrings: <<n>>, or
\* <<>> for NaN
ToNumber(s) ==
    CASE s = "1" -> <<1>>
      [] s = "4" -> <<4>>
      [] OTHER -> <<>>

\* cli.ts: the config literal built from envVars, handed to executeTransactions
drawAuctionConfig(envVars) ==
    [variant |-> envVars.variant, hasWitnet |-> envVars.hasWitnet,
     estimatorDefined |-> envVars.estimatorDefined,
     minProfitThresholdUsd |-> ToNumber(envVars.MIN_PROFIT_THRESHOLD_USD),
     useFlashbots |-> envVars.USE_FLASHBOTS,
     rewardRecipient |-> envVars.REWARD_RECIPIENT]

Configs == {drawAuctionConfig(e) : e \in EnvVars}

\* a threshold that is not a number, or no recipient
Malformed(c) == c.minProfitThresholdUsd = <<>> \/ c.rewardRecipient = "undefined"

ValidConfig(c) ==
    c.variant = "award" => (c.hasWitnet /\ c.estimatorDefined)

----------------------------------------------------------------------------
(* Context reader (utils/getDrawAuctionContextMulticall, not in src) *)

\* DrawAuctionState: Start, then Award ("award") or Finish ("finish")
PhaseTwoState(variant) == IF variant = "award" THEN "Award" ELSE "Finish"

classify(variant, canStartDraw, canAwardDraw) ==
    IF canStartDraw THEN "Start"
    ELSE IF canAwardDraw THEN PhaseTwoState(variant)
    ELSE "None"

\* The snapshots a read can return.  missing: "none", or the part of the
\* batch response that is absent.
Contexts(c) ==
    { [drawAuctionState |-> classify(c.variant, e[1], e[2]),
       canStartDraw |-> e[1], canAwardDraw |-> e[2],
       startDrawFeeUsd |-> s, awardDrawFeeUsd |-> a,
       rngFeeEstimate |-> r[1], rngFeeEstimateUsd |-> r[2],
       nativeTokenMarketRateUsd |-> n, auctionClosesSoon |-> k,
       missing |-> "none"] :
         e \in Eligibilities, s \in RewardsUsd \cup {0}, a \in RewardsUsd \cup {0},
         r \in RngFees, n \in NativeRatesUsd, k \in BOOLEAN }

WellFormedContext(c, x) ==
    /\ (x.canStartDraw <=> x.startDrawFeeUsd # 0)
    /\ (x.canAwardDraw <=> x.awardDrawFeeUsd # 0)
    /\ ~c.hasWitnet => x.rngFeeEstimate = 0

\* A snapshot with a part missing: no eligibility, no state.
PartialContext(m) ==
    [drawAuctionState |-> "None", canStartDraw |-> FALSE, canAwardDraw |-> FALSE,
     startDrawFeeUsd |-> 0, awardDrawFeeUsd |-> 0,
     rngFeeEstimate |-> 0, rngFeeEstimateUsd |-> 0,
     nativeTokenMarketRateUsd |-> 0, auctionClosesSoon |-> FALSE,
     missing |-> m]

MissingParts == {"rewardToken", "startDrawReward"}

NoContext == PartialContext("all")

----------------------------------------------------------------------------
(* Pure parts of the decision *)

\* printContext: does rendering the snapshot throw?
printContextRaises(variant, x) ==
    \/ x.missing = "rewardToken"
    \/ x.missing = "startDrawReward" /\ variant = "finish"

\* utils/getFeesUsd (not in src): avgFeeUsd of gasUnits at gasPrice
getFeesUsd(gasUnits, gasPrice, nativeTokenMarketRateUsd) ==
    (gasUnits * gasPrice * nativeTokenMarketRateUsd) \div 100000

\* getGasCostUsd: the guard that answers 0 without asking for a price
gasLimitIsZero(limit) == limit = <<>> \/ limit[1] = 0

\* a phase-one net profit that leaves the gas cost out
startDrawNetProfitUsdGross(x, gasCost) == x.startDrawFeeUsd - x.rngFeeEstimateUsd

\* calculateStartDrawProfit
startDrawNetProfitUsd(x, gasCost) ==
    x.startDrawFeeUsd - gasCost - x.rngFeeEstimateUsd

\* a phase-two profit that charges the randomness fee again
awardDrawNetProfitUsdLessRngFee(rewardUsd, gasCost) ==
    rewardUsd - gasCost - context.rngFeeEstimateUsd

\* calculateAwardDrawProfit / calculateFinishDrawProfit
awardDrawNetProfitUsd(rewardUsd, gasCost) == rewardUsd - gasCost

\* a threshold test that lets the threshold itself pass
isProfitableAtThreshold(net, c) ==
    c.minProfitThresholdUsd # <<>> /\ net >= c.minProfitThresholdUsd[1]

\* const profitable = netProfitUsd > config.minProfitThresholdUsd; a
\* comparison with NaN is false
isProfitable(net, c) ==
    c.minProfitThresholdUsd # <<>> /\ net > c.minProfitThresholdUsd[1]

\* a force test that accepts a loss of exactly the limit
checkForceAwardDrawAtLimit(c, x, net) ==
    LET lossOkay == net >= MAX_FORCE_RELAY_LOSS_THRESHOLD_USD
    IN  x.auctionClosesSoon /\ lossOkay

checkForceAwardDraw(c, x, net) ==
    LET lossOkay == net > MAX_FORCE_RELAY_LOSS_THRESHOLD_USD
    IN  x.auctionClosesSoon /\ lossOkay

\* part_000, checkAwardDraw: if (profitable || forceAwardDraw)
shouldSendAwardDraw(isProfit, force) == isProfit \/ force

\* a checkFinishDraw that sends whatever the evaluation says
shouldSendFinishDrawAlways(isProfit) == TRUE

\* drawAuction.ts, checkFinishDraw: if (profitable)
shouldSendFinishDraw(isProfit) == isProfit

\* a checkStartDraw that holds back while a transaction of the process is
\* unconfirmed
shouldSendStartDrawUnlessInFlight(isProfit) == isProfit /\ inFlight = 0

\* the condition under which checkStartDraw sends
shouldSendStartDraw(isProfit) == isProfit

\* part_000, buildStartDrawTxParams: value attached to startDraw
startDrawValue_p0(x) == x.rngFeeEstimate * 2

\* drawAuction.ts, buildRngWitnetStartDrawTxParams and
\* buildRngBlockhashStartDrawTxParams: value attached to startDraw
startDrawValue(c, x) == IF c.hasWitnet THEN x.rngFeeEstimate ELSE 0

----------------------------------------------------------------------------
(* State *)

NoCalls ==
    [read |-> 0, estimateGas |-> 0, getGasPrice |-> 0, getFeesUsd |-> 0,
     sendPopulatedTx |-> 0]

\* One call of a collaborator and its answer.  fn and value: the contract
\* function and the attached value of the call (estimateGas, sendPopulatedTx).
\* answer: <<>> when the collaborator raised, <<v>> when it answered v.
Answer(call, fn, value, answer) ==
    [call |-> call, fn |-> fn, value |-> value, answer |-> answer]

CountCall(entries, call) ==
    Cardinality({i \in 1..Len(entries) : entries[i].call = call})

\* the cycle has made the calls of entries, in this order
Asked(entries) ==
    /\ answers' = answers \o entries
    /\ calls' = [c \in DOMAIN calls |-> calls[c] + CountCall(entries, c)]

NoEstimate == [gasUnits |-> 0, gasPriceWei |-> 0]

Done(step) == steps' = Append(steps, step)

Log(messages) == report' = report \cup messages

Did(step) == \E i \in 1..Len(steps) : steps[i] = step

\* the cycle went on to sendPopulated*Transaction
DispatchDecided == Did("evaluate") /\ ~(pc = "done" /\ outcome = "NotProfitable")

\* the liquidator and the minter have not been called
OtherBotsIdle ==
    /\ liquidationPairs = <<>>
    /\ swapPc = "idle"
    /\ pairIndex = 0
    /\ swapContext = <<>>
    /\ swapParams = <<>>
    /\ pairLog = <<>>
    /\ swapError = "none"
    /\ yieldVaultContracts = <<>>
    /\ mintPc = "idle"
    /\ vaultIndex = 0
    /\ mintLog = <<>>
    /\ mintError = "none"

Init ==
    /\ OtherBotsIdle
    /\ config \in {c \in Configs : ValidConfig(c)}
    /\ context = NoContext
    /\ pc = "idle"
    /\ estimatedGasLimit = <<>>
    /\ costEstimate = NoEstimate
    /\ gasCostUsd = 0
    /\ netProfitUsd = 0
    /\ profitable = FALSE
    /\ forceAwardDraw = FALSE
    /\ outcome = "running"
    /\ error = "none"
    /\ calls = NoCalls
    /\ sentTx = <<>>
    /\ steps = <<>>
    /\ cycle = 1
    /\ answers = <<>>
    /\ report = {}
    /\ inFlight = 0
    /\ last = <<>>

\* the cycle ends: o is the outcome, e what is raised to the caller
End(o, e) ==
    /\ pc' = "done"
    /\ outcome' = o
    /\ error' = e

Goto(p) ==
    /\ pc' = p
    /\ UNCHANGED <<outcome, error>>

----------------------------------------------------------------------------
(* What the cycle prints *)

\* runDrawAuction: "Currently no draw auctions to start or finish. Exiting ..."
noAuctionReport == "no auctions, exiting"

\* getGasCostUsd: "Estimated gas limit is 0 ..."
gasLimitZeroReport == "estimated gas limit is 0"

\* a zero cost that is reported with the words of an unprofitable auction
costZeroReportAsNotProfitable == "not profitable, try again soon"

\* check*Draw: "Gas cost is $0. Unable to determine profitability. Exiting ..."
costZeroReport == "gas cost is $0, exiting"

\* calculate*Profit: the 'Profitable?' row of the profit table
profitReport(isProfit) == IF isProfit THEN "Profitable? yes" ELSE "Profitable? no"

\* part_000, checkAwardDraw: console.log('forceAwardDraw'), console.log(forceAwardDraw)
forceReport(force) == IF force THEN "forceAwardDraw true" ELSE "forceAwardDraw false"

\* check*Draw: "Completing current auction currently not profitable. Try again soon ..."
notProfitableReport == "not profitable, try again soon"

\* sendPopulated*Transaction: "Sending ..."
sendingReport == "sending"

\* sendPopulated*Transaction: "Transaction sent!" and the transaction hash
sentReport == "transaction sent"

----------------------------------------------------------------------------
(* runDrawAuction: read the context, print it, pick the phase *)

\* what a read that answers can answer
Snapshots(c) ==
    {x \in Contexts(c) : WellFormedContext(c, x)}
        \cup {PartialContext(m) : m \in MissingParts}

\* a runDrawAuction without the early return on no auction state
nextAfterContextNoReturn(c, x) ==
    IF x.drawAuctionState = "Start" THEN "checkStartDraw" ELSE "checkAwardDraw"

\* a runDrawAuction whose two branches call each other's check
nextAfterContextSwapped(c, x) ==
    IF x.drawAuctionState = "None" THEN "done"
    ELSE IF x.drawAuctionState = "Start" THEN "checkAwardDraw"
    ELSE IF x.drawAuctionState = PhaseTwoState(c.variant) THEN "checkStartDraw"
    ELSE "done"

\* where runDrawAuction goes once the context is printed
nextAfterContext(c, x) ==
    IF x.drawAuctionState = "None" THEN "done"
    ELSE IF x.drawAuctionState = "Start" THEN "checkStartDraw"
    ELSE IF x.drawAuctionState = PhaseTwoState(c.variant) THEN "checkAwardDraw"
    ELSE "done"

RunDrawAuction ==
    /\ UNCHANGED <<liquidatorVars, mintRateVars>>
    /\ pc = "idle"
    /\ \/ /\ context' = NoContext
          /\ Asked(<<Answer("read", "", 0, <<>>)>>)
          /\ End("Raised", "ContextUnavailable")
          /\ UNCHANGED <<steps, report>>
       \/ \E x \in Snapshots(config) :
            /\ context' = x
            /\ Asked(<<Answer("read", "", 0, <<x>>)>>)
            /\ IF printContextRaises(config.variant, x)
               THEN End("Raised", "TypeError") /\ UNCHANGED <<steps, report>>
               ELSE IF nextAfterContext(config, x) = "done"
                    THEN /\ Done("read")
                         /\ Log({noAuctionReport})
                         /\ End("NoAuction", "none")
                    ELSE /\ steps' = steps \o <<"read", nextAfterContext(config, x)>>
                         /\ Goto(nextAfterContext(config, x))
                         /\ UNCHANGED report
    /\ UNCHANGED <<config, estimatedGasLimit, costEstimate, gasCostUsd, netProfitUsd,
                   profitable, forceAwardDraw, sentTx, cycle, inFlight, last>>

----------------------------------------------------------------------------
(* Cost estimator *)

\* a caller that only stops on a negative cost
costUndeterminableIfNegative(cost) == cost < 0

\* if (gasCostUsd === 0) in checkStartDraw / checkAwardDraw / checkFinishDraw
costUndeterminable(cost) == cost = 0

\* getGasCostUsd and the caller's test of its result.  limit: the gas limit
\* handed in; pre: the gas estimates the caller has just requested; next:
\* where the caller goes with a usable cost.
GetGasCostUsd(limit, pre, next) ==
    IF gasLimitIsZero(limit)
    THEN /\ gasCostUsd' = 0
         /\ costEstimate' = NoEstimate
         /\ Asked(pre)
         /\ Done("estimate")
         /\ IF costUndeterminable(0)
            THEN /\ End("CostUndeterminable", "none")
                 /\ Log({gasLimitZeroReport, costZeroReport})
            ELSE /\ Goto(next)
                 /\ Log({gasLimitZeroReport})
    ELSE \/ /\ Asked(pre \o <<Answer("getGasPrice", "", 0, <<>>)>>)
            /\ End("Raised", "GasPriceFailed")
            /\ UNCHANGED <<gasCostUsd, costEstimate, steps, report>>
         \/ \E p \in GasPrices :
              /\ Asked(pre \o <<Answer("getGasPrice", "", 0, <<p>>),
                                Answer("getFeesUsd", "", 0, <<>>)>>)
              /\ End("Raised", "FeesFailed")
              /\ UNCHANGED <<gasCostUsd, costEstimate, steps, report>>
         \/ \E p \in GasPrices :
              LET cost == getFeesUsd(limit[1], p, context.nativeTokenMarketRateUsd)
              IN  /\ gasCostUsd' = cost
                  /\ costEstimate' = [gasUnits |-> limit[1], gasPriceWei |-> p]
                  /\ Asked(pre \o <<Answer("getGasPrice", "", 0, <<p>>),
                                    Answer("getFeesUsd", "", 0, <<cost>>)>>)
                  /\ Done("estimate")
                  /\ IF costUndeterminable(cost)
                     THEN /\ End("CostUndeterminable", "none")
                          /\ Log({costZeroReport})
                     ELSE /\ Goto(next)
                          /\ UNCHANGED report

\* estimatedGasLimit.add(DRAW_GAS_LIMIT_BUFFER)
withBuffer(est) == <<est[1] + DRAW_GAS_LIMIT_BUFFER>>

\* contract.populateTransaction.*(rewardRecipient, ...) throws on an address
\* argument that is undefined
populateTransactionRaises(c) == c.rewardRecipient = "undefined"

\* what contract.estimateGas.* can answer: with an undefined address
\* argument the call is rejected, and the estimator's catch answers undefined
EstimatesFor(c) == IF populateTransactionRaises(c) THEN {<<>>} ELSE GasEstimates

\* part_000, getStartDrawEstimatedGasLimit:
\* contract.estimateGas.startDraw(...transformedTxParams, { value })
getStartDrawEstimatedGasLimit_p0(x, est) ==
    Answer("estimateGas", "startDraw", startDrawValue_p0(x), est)

\* drawAuction.ts, getRngWitnetStartDrawEstimatedGasLimit and
\* getRngBlockhashStartDrawEstimatedGasLimit: contract.estimateGas.startDraw
getStartDrawEstimatedGasLimit(c, x, est) ==
    Answer("estimateGas", "startDraw", startDrawValue(c, x), est)

\* drawAuction.ts, getFinishDrawEstimatedGasLimit:
\* contract.estimateGas.startDraw(...Object.values(finishDrawTxParams))
getFinishDrawEstimatedGasLimit(est) ==
    Answer("estimateGas", "startDraw", 0, est)

\* part_000: getStartDrawGasCostUsd
GetStartDrawGasCostUsd_p0 ==
    /\ UNCHANGED <<liquidatorVars, mintRateVars>>
    /\ pc = "checkStartDraw"
    /\ config.variant = "award"
    /\ \E est \in EstimatesFor(config) :
         LET pre == <<getStartDrawEstimatedGasLimit_p0(context, est)>>
         IN  /\ estimatedGasLimit' = est
             /\ IF populateTransactionRaises(config)
                THEN /\ Asked(pre)
                     /\ End("Raised", "InvalidArgument")
                     /\ UNCHANGED <<costEstimate, gasCostUsd, steps, report>>
                ELSE GetGasCostUsd(est, pre, "calculateStartDrawProfit")
    /\ UNCHANGED <<config, context, netProfitUsd, profitable, forceAwardDraw,
                   sentTx, cycle, inFlight, last>>

\* drawAuction.ts: getStartDrawGasCostUsd
GetStartDrawGasCostUsd ==
    /\ UNCHANGED <<liquidatorVars, mintRateVars>>
    /\ pc = "checkStartDraw"
    /\ config.variant = "finish"
    /\ IF ~config.estimatorDefined
       THEN /\ End("Raised", "ReferenceError")
            /\ UNCHANGED <<estimatedGasLimit, costEstimate, gasCostUsd, calls,
                           answers, steps, report>>
       ELSE \E est \in EstimatesFor(config) :
              LET pre == <<getStartDrawEstimatedGasLimit(config, context, est)>>
              IN  /\ estimatedGasLimit' = est
                  /\ IF populateTransactionRaises(config)
                     THEN /\ Asked(pre)
                          /\ End("Raised", "InvalidArgument")
                          /\ UNCHANGED <<costEstimate, gasCostUsd, steps, report>>
                     ELSE IF est = <<>>
                     THEN /\ Asked(pre)
                          /\ End("Raised", "TypeError")
                          /\ UNCHANGED <<costEstimate, gasCostUsd, steps, report>>
                     ELSE GetGasCostUsd(withBuffer(est), pre, "calculateStartDrawProfit")
    /\ UNCHANGED <<config, context, netProfitUsd, profitable, forceAwardDraw,
                   sentTx, cycle, inFlight, last>>

\* part_000: getAwardDrawGasCostUsd
GetAwardDrawGasCostUsd ==
    /\ UNCHANGED <<liquidatorVars, mintRateVars>>
    /\ pc = "checkAwardDraw"
    /\ config.variant = "award"
    /\ IF populateTransactionRaises(config)
       THEN /\ End("Raised", "InvalidArgument")
            /\ UNCHANGED <<costEstimate, gasCostUsd, calls, answers, steps, report>>
       ELSE GetGasCostUsd(<<AWARD_DRAW_ESTIMATED_GAS_LIMIT>>, <<>>,
                          "calculateAwardDrawProfit")
    /\ UNCHANGED <<config, context, estimatedGasLimit, netProfitUsd, profitable,
                   forceAwardDraw, sentTx, cycle, inFlight, last>>

\* drawAuction.ts: getFinishDrawGasCostUsd
GetFinishDrawGasCostUsd ==
    /\ UNCHANGED <<liquidatorVars, mintRateVars>>
    /\ pc = "checkAwardDraw"
    /\ config.variant = "finish"
    /\ \E est \in EstimatesFor(config) :
         LET pre == <<getFinishDrawEstimatedGasLimit(est)>>
         IN  /\ estimatedGasLimit' = est
             /\ IF populateTransactionRaises(config)
                THEN /\ Asked(pre)
                     /\ End("Raised", "InvalidArgument")
                     /\ UNCHANGED <<costEstimate, gasCostUsd, steps, report>>
                ELSE IF est = <<>>
                THEN /\ Asked(pre)
                     /\ End("Raised", "TypeError")
                     /\ UNCHANGED <<costEstimate, gasCostUsd, steps, report>>
                ELSE GetGasCostUsd(withBuffer(est), pre, "calculateAwardDrawProfit")
    /\ UNCHANGED <<config, context, netProfitUsd, profitable, forceAwardDraw,
                   sentTx, cycle, inFlight, last>>

----------------------------------------------------------------------------
(* Profitability evaluator *)

\* calculateStartDrawProfit, and the branch of checkStartDraw on its result
CalculateStartDrawProfit ==
    /\ UNCHANGED <<liquidatorVars, mintRateVars>>
    /\ pc = "calculateStartDrawProfit"
    /\ LET net == startDrawNetProfitUsd(context, gasCostUsd)
           isProfit == isProfitable(net, config)
       IN  /\ netProfitUsd' = net
           /\ profitable' = isProfit
           /\ IF shouldSendStartDraw(isProfit)
              THEN /\ Goto("sendStartDraw")
                   /\ Log({profitReport(isProfit)})
              ELSE /\ End("NotProfitable", "none")
                   /\ Log({profitReport(isProfit), notProfitableReport})
    /\ Done("evaluate")
    /\ UNCHANGED <<config, context, estimatedGasLimit, costEstimate, gasCostUsd,
                   forceAwardDraw, calls, answers, sentTx, cycle, inFlight, last>>

\* calculateAwardDrawProfit / calculateFinishDrawProfit, checkForceAwardDraw
\* (part_000 only), and the branch of checkAwardDraw / checkFinishDraw
CalculateAwardDrawProfit ==
    /\ UNCHANGED <<liquidatorVars, mintRateVars>>
    /\ pc = "calculateAwardDrawProfit"
    /\ LET net == awardDrawNetProfitUsd(context.awardDrawFeeUsd, gasCostUsd)
           isProfit == isProfitable(net, config)
           force == IF config.variant = "award"
                    THEN checkForceAwardDraw(config, context, net)
                    ELSE FALSE
           printed == IF config.variant = "award"
                      THEN {profitReport(isProfit), forceReport(force)}
                      ELSE {profitReport(isProfit)}
       IN  /\ netProfitUsd' = net
           /\ profitable' = isProfit
           /\ forceAwardDraw' = force
           /\ IF (IF config.variant = "award"
                  THEN shouldSendAwardDraw(isProfit, force)
                  ELSE shouldSendFinishDraw(isProfit))
              THEN /\ Goto("sendAwardDraw")
                   /\ Log(printed)
              ELSE /\ End("NotProfitable", "none")
                   /\ Log(printed \cup {notProfitableReport})
    /\ Done("evaluate")
    /\ UNCHANGED <<config, context, estimatedGasLimit, costEstimate, gasCostUsd,
                   calls, answers, sentTx, cycle, inFlight, last>>

----------------------------------------------------------------------------
(* Transaction dispatcher *)

\* what sendPopulatedTx is handed
Tx(fn, value, gasLimit, gasPrice, useFlashbots) ==
    [fn |-> fn, value |-> value, gasLimit |-> gasLimit, gasPrice |-> gasPrice,
     useFlashbots |-> useFlashbots, rewardRecipient |-> config.rewardRecipient]

Submitted(tx, result) == Answer("sendPopulatedTx", tx.fn, tx.value, result)

\* a submission that is handed twice
SendPopulatedTxTwice(tx, pre) ==
    \/ /\ Asked(pre \o <<Submitted(tx, <<"hash">>), Submitted(tx, <<"hash">>)>>)
       /\ sentTx' = sentTx \o <<[tx |-> tx, result |-> "hash"], [tx |-> tx, result |-> "hash"]>>
       /\ inFlight' = inFlight + 2
       /\ Log({sendingReport, sentReport})
       /\ End("Sent", "none") /\ Done("send")
    \/ /\ Asked(pre \o <<Submitted(tx, <<>>), Submitted(tx, <<>>)>>)
       /\ sentTx' = sentTx \o <<[tx |-> tx, result |-> "raised"], [tx |-> tx, result |-> "raised"]>>
       /\ Log({sendingReport})
       /\ End("Raised", "SubmissionFailed") /\ UNCHANGED <<steps, inFlight>>

\* a submission whose failure is caught and logged
SendPopulatedTxSwallowing(tx, pre) ==
    \/ /\ Asked(pre \o <<Submitted(tx, <<"hash">>)>>)
       /\ sentTx' = Append(sentTx, [tx |-> tx, result |-> "hash"])
       /\ inFlight' = inFlight + 1
       /\ Log({sendingReport, sentReport})
       /\ End("Sent", "none") /\ Done("send")
    \/ /\ Asked(pre \o <<Submitted(tx, <<>>)>>)
       /\ sentTx' = Append(sentTx, [tx |-> tx, result |-> "raised"])
       /\ Log({sendingReport})
       /\ End("NotProfitable", "none") /\ UNCHANGED <<steps, inFlight>>

\* a submission that is followed by a wait for the receipt
SendPopulatedTxWaiting(tx, pre) ==
    \/ /\ Asked(pre \o <<Submitted(tx, <<"hash">>)>>)
       /\ sentTx' = Append(sentTx, [tx |-> tx, result |-> "hash"])
       /\ inFlight' = inFlight + 1
       /\ Log({sendingReport})
       /\ Goto("waitForReceipt") /\ UNCHANGED steps
    \/ /\ Asked(pre \o <<Submitted(tx, <<>>)>>)
       /\ sentTx' = Append(sentTx, [tx |-> tx, result |-> "raised"])
       /\ Log({sendingReport})
       /\ End("Raised", "SubmissionFailed") /\ UNCHANGED <<steps, inFlight>>

\* await sendPopulatedTx(...): it answers a handle with a hash, or raises,
\* and nothing around the call catches.  With a hash the function prints it
\* and returns: the transaction is left unconfirmed.
SendPopulatedTx(tx, pre) ==
    \/ /\ Asked(pre \o <<Submitted(tx, <<"hash">>)>>)
       /\ sentTx' = Append(sentTx, [tx |-> tx, result |-> "hash"])
       /\ inFlight' = inFlight + 1
       /\ Log({sendingReport, sentReport})
       /\ End("Sent", "none") /\ Done("send")
    \/ /\ Asked(pre \o <<Submitted(tx, <<>>)>>)
       /\ sentTx' = Append(sentTx, [tx |-> tx, result |-> "raised"])
       /\ Log({sendingReport})
       /\ End("Raised", "SubmissionFailed") /\ UNCHANGED <<steps, inFlight>>

\* a phase-two submission whose private-relay flag follows the configuration
useFlashbotsPhaseTwoConfigured(c) == c.useFlashbots

\* sendPopulatedAwardDrawTransaction / sendPopulatedFinishDrawTransaction:
\* the useFlashbots argument of sendPopulatedTx is the literal false
useFlashbotsPhaseTwo(c) == FALSE

\* sendPopulatedStartDrawTransaction: the useFlashbots argument of
\* sendPopulatedTx is config.useFlashbots
useFlashbotsPhaseOne(c) == c.useFlashbots

\* a dispatcher that hands on the gas price the cost was computed from
txGasPriceOfEstimate(fetched, estimate) == estimate.gasPriceWei

\* the gasPrice argument of sendPopulatedTx: what provider.getGasPrice()
\* has just answered in sendPopulated*Transaction
txGasPrice(fetched, estimate) == fetched

\* a dispatcher that hands on the bare estimate
estimatedGasLimitWithoutBuffer(est) == est[1]

\* drawAuction.ts, sendPopulated*Transaction:
\* Number(estimatedGasLimit) + DRAW_GAS_LIMIT_BUFFER
estimatedGasLimitWithBufferAsNumber(est) == est[1] + DRAW_GAS_LIMIT_BUFFER

\* a dispatcher whose failed collaborator call never settles
RaisedBeforeSubmissionHanging(pre, e) ==
    /\ Asked(pre)
    /\ Goto("awaiting")
    /\ UNCHANGED <<sentTx, steps, report, inFlight>>

\* a collaborator of the dispatcher raised before the submission
RaisedBeforeSubmission(pre, e) ==
    /\ Asked(pre)
    /\ End("Raised", e)
    /\ UNCHANGED <<sentTx, steps, report, inFlight>>

GasPriceAt(p) == Answer("getGasPrice", "", 0, p)

\* part_000: sendPopulatedStartDrawTransaction
SendPopulatedStartDrawTransaction_p0 ==
    /\ UNCHANGED <<liquidatorVars, mintRateVars>>
    /\ pc = "sendStartDraw"
    /\ config.variant = "award"
    /\ \/ RaisedBeforeSubmission(<<GasPriceAt(<<>>)>>, "GasPriceFailed")
       \/ \E p \in GasPrices :
            SendPopulatedTx(Tx("startDraw", startDrawValue_p0(context),
                               START_DRAW_GAS_LIMIT, txGasPrice(p, costEstimate),
                               useFlashbotsPhaseOne(config)),
                            <<GasPriceAt(<<p>>)>>)
    /\ UNCHANGED <<config, context, estimatedGasLimit, costEstimate, gasCostUsd,
                   netProfitUsd, profitable, forceAwardDraw, cycle, last>>

\* drawAuction.ts: sendPopulatedStartDrawTransaction
SendPopulatedStartDrawTransaction ==
    /\ UNCHANGED <<liquidatorVars, mintRateVars>>
    /\ pc = "sendStartDraw"
    /\ config.variant = "finish"
    /\ \E est \in GasEstimates :
         LET asked == getStartDrawEstimatedGasLimit(config, context, est)
         IN  IF est = <<>>
             THEN RaisedBeforeSubmission(<<asked>>, "TypeError")
             ELSE \/ RaisedBeforeSubmission(<<asked, GasPriceAt(<<>>)>>, "GasPriceFailed")
                  \/ \E p \in GasPrices :
                       SendPopulatedTx(Tx("startDraw", startDrawValue(config, context),
                                          estimatedGasLimitWithBufferAsNumber(est),
                                          txGasPrice(p, costEstimate),
                                          useFlashbotsPhaseOne(config)),
                                       <<asked, GasPriceAt(<<p>>)>>)
    /\ UNCHANGED <<config, context, estimatedGasLimit, costEstimate, gasCostUsd,
                   netProfitUsd, profitable, forceAwardDraw, cycle, last>>

\* part_000: sendPopulatedAwardDrawTransaction
SendPopulatedAwardDrawTransaction ==
    /\ UNCHANGED <<liquidatorVars, mintRateVars>>
    /\ pc = "sendAwardDraw"
    /\ config.variant = "award"
    /\ \/ RaisedBeforeSubmission(<<GasPriceAt(<<>>)>>, "GasPriceFailed")
       \/ \E p \in GasPrices :
            SendPopulatedTx(Tx("awardDraw", 0, AWARD_DRAW_GAS_LIMIT,
                               txGasPrice(p, costEstimate),
                               useFlashbotsPhaseTwo(config)),
                            <<GasPriceAt(<<p>>)>>)
    /\ UNCHANGED <<config, context, estimatedGasLimit, costEstimate, gasCostUsd,
                   netProfitUsd, profitable, forceAwardDraw, cycle, last>>

\* drawAuction.ts: sendPopulatedFinishDrawTransaction
SendPopulatedFinishDrawTransaction ==
    /\ UNCHANGED <<liquidatorVars, mintRateVars>>
    /\ pc = "sendAwardDraw"
    /\ config.variant = "finish"
    /\ \/ RaisedBeforeSubmission(<<GasPriceAt(<<>>)>>, "GasPriceFailed")
       \/ \E p \in GasPrices, est \in GasEstimates :
            LET pre == <<GasPriceAt(<<p>>), getFinishDrawEstimatedGasLimit(est)>>
            IN  IF est = <<>>
                THEN RaisedBeforeSubmission(pre, "TypeError")
                ELSE SendPopulatedTx(Tx("finishDraw", 0,
                                        estimatedGasLimitWithBufferAsNumber(est),
                                        txGasPrice(p, costEstimate),
                                        useFlashbotsPhaseTwo(config)), pre)
    /\ UNCHANGED <<config, context, estimatedGasLimit, costEstimate, gasCostUsd,
                   netProfitUsd, profitable, forceAwardDraw, cycle, last>>

----------------------------------------------------------------------------
(* The chain and the scheduler *)

\* a transaction of this process is mined, or dropped from the pool
ConfirmTransaction ==
    /\ UNCHANGED <<liquidatorVars, mintRateVars>>
    /\ inFlight > 0
    /\ inFlight' = inFlight - 1
    /\ UNCHANGED <<config, context, pc, estimatedGasLimit, costEstimate, gasCostUsd,
                   netProfitUsd, profitable, forceAwardDraw, outcome, error, calls,
                   sentTx, steps, cycle, answers, report, last>>

\* a module that keeps the last cost estimate between calls
ResetCycleKeepingEstimate ==
    /\ cycle' = cycle + 1
    /\ pc' = "idle"
    /\ context' = NoContext
    /\ estimatedGasLimit' = <<>>
    /\ netProfitUsd' = 0
    /\ profitable' = FALSE
    /\ forceAwardDraw' = FALSE
    /\ outcome' = "running"
    /\ error' = "none"
    /\ calls' = NoCalls
    /\ sentTx' = <<>>
    /\ steps' = <<>>
    /\ answers' = <<>>
    /\ report' = {}
    /\ UNCHANGED <<costEstimate, gasCostUsd>>

\* every variable of runDrawAuction is a local of the call: a new call starts
\* with none of them
ResetCycle ==
    /\ cycle' = cycle + 1
    /\ pc' = "idle"
    /\ context' = NoContext
    /\ estimatedGasLimit' = <<>>
    /\ costEstimate' = NoEstimate
    /\ gasCostUsd' = 0
    /\ netProfitUsd' = 0
    /\ profitable' = FALSE
    /\ forceAwardDraw' = FALSE
    /\ outcome' = "running"
    /\ error' = "none"
    /\ calls' = NoCalls
    /\ sentTx' = <<>>
    /\ steps' = <<>>
    /\ answers' = <<>>
    /\ report' = {}

\* the scheduler invokes the next cycle, whether or not the transaction of
\* the last one is confirmed
NextCycle ==
    /\ UNCHANGED <<liquidatorVars, mintRateVars>>
    /\ pc = "done"
    /\ cycle < MaxCycles
    /\ ResetCycle
    /\ UNCHANGED <<config, inFlight, last>>

\* what a cycle decided
Summary ==
    [phase |-> context.drawAuctionState, gasCostUsd |-> gasCostUsd,
     netProfitUsd |-> netProfitUsd, profitable |-> profitable,
     forceAwardDraw |-> forceAwardDraw, dispatch |-> DispatchDecided]

\* the next cycle of a run in which the collaborators are stubs: the cycle
\* that ends is kept, to be answered the same and to be compared with
RerunCycle ==
    /\ UNCHANGED <<liquidatorVars, mintRateVars>>
    /\ pc = "done"
    /\ cycle < MaxCycles
    /\ ResetCycle
    /\ last' = <<[answers |-> answers, context |-> context, summary |-> Summary]>>
    /\ UNCHANGED <<config, inFlight>>

\* deterministic stubs: a call the last cycle made at the same place, of the
\* same function with the same value, is answered as it was then
Stubbed ==
    last # <<>> =>
        \A i \in 1..Len(answers) :
            (/\ i <= Len(last[1].answers)
             /\ last[1].answers[i].call = answers[i].call
             /\ last[1].answers[i].fn = answers[i].fn
             /\ last[1].answers[i].value = answers[i].value)
                => last[1].answers[i].answer = answers[i].answer

CycleStep ==
    \/ RunDrawAuction
    \/ GetStartDrawGasCostUsd_p0
    \/ GetStartDrawGasCostUsd
    \/ GetAwardDrawGasCostUsd
    \/ GetFinishDrawGasCostUsd
    \/ CalculateStartDrawProfit
    \/ CalculateAwardDrawProfit
    \/ SendPopulatedStartDrawTransaction_p0
    \/ SendPopulatedStartDrawTransaction
    \/ SendPopulatedAwardDrawTransaction
    \/ SendPopulatedFinishDrawTransaction

Next ==
    \/ CycleStep
    \/ ConfirmTransaction
    \/ NextCycle

Spec == Init /\ [][Next]_vars

\* every call of a cycle is awaited and every collaborator answers or raises:
\* a cycle that can take its next step takes it
SpecLive == Init /\ [][Next]_vars /\ WF_vars(CycleStep)

\* the same process among stubs: every cycle is asked again what the last was
NextRerun ==
    \/ RunDrawAuction /\ Stubbed'
    \/ GetStartDrawGasCostUsd_p0 /\ Stubbed'
    \/ GetStartDrawGasCostUsd /\ Stubbed'
    \/ GetAwardDrawGasCostUsd /\ Stubbed'
    \/ GetFinishDrawGasCostUsd /\ Stubbed'
    \/ CalculateStartDrawProfit /\ Stubbed'
    \/ CalculateAwardDrawProfit /\ Stubbed'
    \/ SendPopulatedStartDrawTransaction_p0 /\ Stubbed'
    \/ SendPopulatedStartDrawTransaction /\ Stubbed'
    \/ SendPopulatedAwardDrawTransaction /\ Stubbed'
    \/ SendPopulatedFinishDrawTransaction /\ Stubbed'
    \/ ConfirmTransaction /\ Stubbed'
    \/ RerunCycle /\ Stubbed'

SpecRerun == Init /\ [][NextRerun]_vars

----------------------------------------------------------------------------
(* liquidatorArbitrageSwap.ts: liquidatorArbitrageSwap and its earlier     *)
(* version liquidatorHandleArbSwap.  The two loops are the same statement  *)
(* for statement; they differ in how the context is read and in the name   *)
(* of the field that holds the USD rate of tokenOut.                       *)

MaxPairs == 3

\* const MIN_PROFIT_THRESHOLD_USD = 5
MIN_PROFIT_THRESHOLD_USD == 5

\* gasLimit: 450000 of relayer.sendTransaction
SWAP_GAS_LIMIT == 450000

\* ArbLiquidatorContext, as far as the loop reads it.  tokenOut.assetRateUsd
\* is tokenOutUnderlyingAsset.assetRateUsd in liquidatorArbitrageSwap.
SwapContexts ==
    { [tokenIn |-> [decimals |-> 1, assetRateUsd |-> 1],
       tokenOut |-> [decimals |-> 0, assetRateUsd |-> 1],
       relayer |-> [tokenInBalance |-> b, tokenInAllowance |-> a]] :
         b \in {0, 200}, a \in {0, 200} }

\* what calculateAmounts can answer, in base units of the two tokens
SwapAmounts ==
    { [exactAmountIn |-> 100, amountOutMin |-> o] : o \in {12, 16, 17} }

\* maxFeeUsd of getFeesUsd
MaxFeesUsd == {1, 2}

\* parseFloat(ethers.utils.formatUnits(amount, decimals)): the input sets
\* hold amounts of whole tokens
formatUnits(amount, decimals) == amount \div (10 ^ decimals)

\* calculateProfit: tokenOutUnderlyingAssetUsd (tokenOutUsd)
tokenOutUsd(x, amounts) ==
    formatUnits(amounts.amountOutMin, x.tokenOut.decimals) * x.tokenOut.assetRateUsd

\* calculateProfit: tokenInUsd
tokenInUsd(x, amounts) ==
    formatUnits(amounts.exactAmountIn, x.tokenIn.decimals) * x.tokenIn.assetRateUsd

\* calculateProfit: grossProfitUsd - maxFeeUsd
swapNetProfitUsd(x, amounts, maxFeeUsd) ==
    tokenOutUsd(x, amounts) - tokenInUsd(x, amounts) - maxFeeUsd

\* a swap that is worth it at the threshold
swapProfitableAtThreshold(net) == net >= MIN_PROFIT_THRESHOLD_USD

\* calculateProfit: profitable = netProfitUsd > MIN_PROFIT_THRESHOLD_USD
swapProfitable(net) == net > MIN_PROFIT_THRESHOLD_USD

\* checkBalance: tokenInBalance.gt(exactAmountIn)
checkBalance(x, amounts) == x.relayer.tokenInBalance > amounts.exactAmountIn

\* a loop that skips a pair the relayer has no balance for
afterCheckBalanceSkipping(sufficientBalance) ==
    IF sufficientBalance THEN "approve" ELSE "continue"

\* the branch on sufficientBalance: both arms only print ("// continue;")
afterCheckBalance(sufficientBalance) == "approve"

\* approve: allowance.lt(exactAmountIn)
allowanceShort(x, amounts) == x.relayer.tokenInAllowance < amounts.exactAmountIn

\* a loop that goes on to the next pair after an unprofitable one
afterUnprofitableContinue(isProfit) == IF isProfit THEN "send" ELSE "continue"

\* if (!profitable) { ...; // continue; throw new Error(); }
afterUnprofitable(isProfit) == IF isProfit THEN "send" ELSE "throw"

\* the record the loop starts for a pair
NewPair(i, stage) ==
    [pair |-> liquidationPairs[i], stage |-> stage, sufficientBalance |-> FALSE,
     approval |-> "none", maxFeeUsd |-> <<>>, netProfitUsd |-> <<>>,
     profitable |-> FALSE,
     gasLimit |-> 0, sent |-> "no"]

\* liquidatorArbitrageSwap raises e to its caller
SwapRaised(e) ==
    /\ swapPc' = "done"
    /\ swapError' = e
    /\ UNCHANGED pairIndex

\* i++ and the loop test
NextPair ==
    /\ IF pairIndex < Len(liquidationPairs)
       THEN swapPc' = "getContext" /\ pairIndex' = pairIndex + 1
       ELSE swapPc' = "done" /\ UNCHANGED pairIndex
    /\ UNCHANGED swapError

SwapGoto(p) ==
    /\ swapPc' = p
    /\ UNCHANGED <<pairIndex, swapError>>

\* getLiquidationContracts and the loop test of the first round
LiquidatorArbitrageSwap ==
    /\ swapPc = "idle"
    /\ \E n \in 0..MaxPairs :
         /\ liquidationPairs' = [k \in 1..n |-> k]
         /\ IF n = 0
            THEN swapPc' = "done" /\ UNCHANGED pairIndex
            ELSE swapPc' = "getContext" /\ pairIndex' = 1
    /\ UNCHANGED <<swapContext, swapParams, pairLog, swapError>>
    /\ UNCHANGED <<drawAuctionVars, mintRateVars>>

\* getContext and printContext
GetContext ==
    /\ swapPc = "getContext"
    /\ \/ /\ SwapRaised("ContextFailed")
          /\ pairLog' = Append(pairLog, NewPair(pairIndex, "none"))
          /\ swapContext' = <<>>
       \/ \E x \in SwapContexts :
            /\ swapContext' = <<x>>
            /\ pairLog' = Append(pairLog, NewPair(pairIndex, "context"))
            /\ SwapGoto("calculateAmounts")
    /\ swapParams' = <<>>
    /\ UNCHANGED liquidationPairs
    /\ UNCHANGED <<drawAuctionVars, mintRateVars>>

\* calculateAmounts, checkBalance and the branch on sufficientBalance
CalculateAmounts ==
    /\ swapPc = "calculateAmounts"
    /\ \/ /\ SwapRaised("AmountsFailed")
          /\ UNCHANGED <<swapParams, pairLog>>
       \/ \E m \in SwapAmounts :
            LET sufficientBalance == checkBalance(swapContext[1], m)
            IN  /\ swapParams' = <<m>>
                /\ pairLog' = [pairLog EXCEPT
                                 ![Len(pairLog)].stage = "amounts",
                                 ![Len(pairLog)].sufficientBalance = sufficientBalance]
                /\ IF afterCheckBalance(sufficientBalance) = "approve"
                   THEN SwapGoto("approve")
                   ELSE NextPair
    /\ UNCHANGED <<liquidationPairs, swapContext>>
    /\ UNCHANGED <<drawAuctionVars, mintRateVars>>

\* approve: whatever token.approve, tx.wait or the allowance query raise is
\* caught and printed
Approve ==
    /\ swapPc = "approve"
    /\ \E a \in IF allowanceShort(swapContext[1], swapParams[1])
                THEN {"approved", "failed"}
                ELSE {"sufficient"} :
         pairLog' = [pairLog EXCEPT ![Len(pairLog)].stage = "approve",
                                    ![Len(pairLog)].approval = a]
    /\ SwapGoto("callStatic")
    /\ UNCHANGED <<liquidationPairs, swapContext, swapParams>>
    /\ UNCHANGED <<drawAuctionVars, mintRateVars>>

\* liquidationRouter.callStatic.swapExactAmountIn
CallStaticSwapExactAmountIn ==
    /\ swapPc = "callStatic"
    /\ \/ /\ SwapRaised("StaticCallFailed")
          /\ UNCHANGED pairLog
       \/ /\ pairLog' = [pairLog EXCEPT ![Len(pairLog)].stage = "static"]
          /\ SwapGoto("calculateProfit")
    /\ UNCHANGED <<liquidationPairs, swapContext, swapParams>>
    /\ UNCHANGED <<drawAuctionVars, mintRateVars>>

\* calculateProfit (getEthMarketRateUsd, estimateGas.swapExactAmountIn,
\* getFeesUsd) and the branch on its result
CalculateProfit ==
    /\ swapPc = "calculateProfit"
    /\ \/ /\ SwapRaised("CostFailed")
          /\ UNCHANGED pairLog
       \/ \E maxFeeUsd \in MaxFeesUsd :
            LET net == swapNetProfitUsd(swapContext[1], swapParams[1], maxFeeUsd)
                isProfit == swapProfitable(net)
            IN  /\ pairLog' = [pairLog EXCEPT
                                 ![Len(pairLog)].stage = "profit",
                                 ![Len(pairLog)].maxFeeUsd = <<maxFeeUsd>>,
                                 ![Len(pairLog)].netProfitUsd = <<net>>,
                                 ![Len(pairLog)].profitable = isProfit]
                /\ IF afterUnprofitable(isProfit) = "send"
                   THEN SwapGoto("send")
                   ELSE IF afterUnprofitable(isProfit) = "throw"
                   THEN SwapRaised("NotProfitable")
                   ELSE NextPair
    /\ UNCHANGED <<liquidationPairs, swapContext, swapParams>>
    /\ UNCHANGED <<drawAuctionVars, mintRateVars>>

\* populateTransaction.swapExactAmountIn and relayer.sendTransaction, in a
\* try whose catch raises again
SendSwapTransaction ==
    /\ swapPc = "send"
    /\ \/ /\ SwapRaised("PopulateFailed")
          /\ UNCHANGED pairLog
       \/ /\ SwapRaised("SubmissionFailed")
          /\ pairLog' = [pairLog EXCEPT ![Len(pairLog)].gasLimit = SWAP_GAS_LIMIT,
                                        ![Len(pairLog)].sent = "raised"]
       \/ /\ pairLog' = [pairLog EXCEPT ![Len(pairLog)].stage = "send",
                                        ![Len(pairLog)].gasLimit = SWAP_GAS_LIMIT,
                                        ![Len(pairLog)].sent = "hash"]
          /\ NextPair
    /\ UNCHANGED <<liquidationPairs, swapContext, swapParams>>
    /\ UNCHANGED <<drawAuctionVars, mintRateVars>>

NextLiquidator ==
    \/ LiquidatorArbitrageSwap
    \/ GetContext
    \/ CalculateAmounts
    \/ Approve
    \/ CallStaticSwapExactAmountIn
    \/ CalculateProfit
    \/ SendSwapTransaction

\* the process that runs one of the other bots: no draw auction cycle is
\* started in it, and one configuration stands for all
InitOtherBots ==
    /\ Init
    /\ config = CHOOSE c \in Configs : ValidConfig(c)

SpecLiquidator == InitOtherBots /\ [][NextLiquidator]_vars

----------------------------------------------------------------------------
(* yieldVaultMintRate.ts: runYieldVaultMintRate *)

MaxVaults == 3

\* const gasLimit = 200000
MINT_RATE_GAS_LIMIT == 200000

\* what getContracts('YieldVault', ...) can answer: a list whose entries
\* are contracts, or are missing
VaultLists ==
    UNION { [1..n -> {[address |-> k, available |-> b] : k \in 1..n, b \in BOOLEAN}] :
              n \in 0..MaxVaults }

\* each contract of the blob is in the list once
YieldVaults == {l \in VaultLists : \A k \in 1..Len(l) : l[k].address = k}

\* a catch that prints the error and lets the loop go on
afterMintRateFailureContinue(result) == "continue"

\* try { ... sendPopulatedTx ... } catch (error) { throw new Error(error); }
afterMintRateFailure(result) == IF result = "hash" THEN "continue" ELSE "throw"

MintRaised(e) ==
    /\ mintPc' = "done"
    /\ mintError' = e
    /\ UNCHANGED vaultIndex

\* the next round of for (const yieldVaultContract of yieldVaultContracts)
NextVault ==
    /\ IF vaultIndex < Len(yieldVaultContracts)
       THEN mintPc' = "populate" /\ vaultIndex' = vaultIndex + 1
       ELSE mintPc' = "done" /\ UNCHANGED vaultIndex
    /\ UNCHANGED mintError

\* getContracts and the first round of the loop
RunYieldVaultMintRate ==
    /\ mintPc = "idle"
    /\ \E l \in YieldVaults :
         /\ yieldVaultContracts' = l
         /\ IF l = <<>>
            THEN mintPc' = "done" /\ UNCHANGED vaultIndex
            ELSE mintPc' = "populate" /\ vaultIndex' = 1
    /\ UNCHANGED <<mintLog, mintError>>
    /\ UNCHANGED <<drawAuctionVars, liquidatorVars>>

\* if (!yieldVaultContract) throw ...; populateTransaction.mintRate()
PopulateMintRate ==
    /\ mintPc = "populate"
    /\ mintLog' = Append(mintLog, [vault |-> yieldVaultContracts[vaultIndex].address,
                                   gasLimit |-> 0, gasPrice |-> <<>>, sent |-> "no"])
    /\ IF ~yieldVaultContracts[vaultIndex].available
       THEN MintRaised("ContractUnavailable")
       ELSE \/ MintRaised("PopulateFailed")
            \/ mintPc' = "send" /\ UNCHANGED <<vaultIndex, mintError>>
    /\ UNCHANGED yieldVaultContracts
    /\ UNCHANGED <<drawAuctionVars, liquidatorVars>>

\* the try block: getGasPrice, sendPopulatedTx, console.log(tx.hash)
SendMintRate ==
    /\ mintPc = "send"
    /\ \/ /\ MintRaised("GasPriceFailed")
          /\ UNCHANGED mintLog
       \/ \E p \in GasPrices, result \in {"hash", "raised"} :
            /\ mintLog' = [mintLog EXCEPT ![Len(mintLog)] =
                             [vault |-> @.vault, gasLimit |-> MINT_RATE_GAS_LIMIT,
                              gasPrice |-> <<p>>, sent |-> result]]
            /\ IF afterMintRateFailure(result) = "throw"
               THEN MintRaised("SubmissionFailed")
               ELSE NextVault
    /\ UNCHANGED yieldVaultContracts
    /\ UNCHANGED <<drawAuctionVars, liquidatorVars>>

NextMintRate ==
    \/ RunYieldVaultMintRate
    \/ PopulateMintRate
    \/ SendMintRate

SpecMintRate == InitOtherBots /\ [][NextMintRate]_vars

----------------------------------------------------------------------------
(* Properties *)

PhaseOne == context.drawAuctionState = "Start"

\* the threshold of the process is a number, and Threshold is that number
NumericThreshold == config.minProfitThresholdUsd # <<>>

Threshold == config.minProfitThresholdUsd[1]

PhaseTwo == context.drawAuctionState \in {"Award", "Finish"}

\* C1: in one cycle sendPopulatedTx is invoked at most once, whatever the
\* snapshot and however the collaborators answer or raise.
C1_AtMostOneSubmission ==
    /\ calls.sendPopulatedTx <= 1
    /\ Len(sentTx) <= 1

C1_Witness ==
    /\ pc = "done"
    /\ calls.sendPopulatedTx = 1
    /\ Len(sentTx) = 1

\* C2: in a phase-two cycle with a nonzero gas cost the finalize transaction
\* is dispatched exactly when profitable or forced, forced being
\* auctionClosesSoon and netProfitUsd > -5.
C2_DispatchIffProfitableOrForced ==
    (PhaseTwo /\ Did("evaluate") /\ gasCostUsd # 0)
        => (DispatchDecided
              <=> (profitable \/ (context.auctionClosesSoon /\ netProfitUsd > -5)))

C4_StartDrawProfit ==
    (PhaseOne /\ Did("evaluate") /\ NumericThreshold)
        => /\ gasCostUsd # 0
           /\ netProfitUsd = context.startDrawFeeUsd - gasCostUsd
                               - context.rngFeeEstimateUsd
           /\ profitable <=> (netProfitUsd > Threshold)
           /\ netProfitUsd = Threshold
                => /\ ~profitable
                   /\ pc = "done"
                   /\ outcome = "NotProfitable"
                   /\ calls.sendPopulatedTx = 0

C4_Witness ==
    /\ PhaseOne
    /\ Did("evaluate")
    /\ context.rngFeeEstimateUsd > 0
    /\ NumericThreshold
    /\ netProfitUsd = Threshold
    /\ outcome = "NotProfitable"

\* C5: phase two computes netProfitUsd = reward - gasCost, without the
\* randomness fee, and profitable = (netProfitUsd > threshold), strictly.
C5_AwardDrawProfit ==
    (PhaseTwo /\ Did("evaluate") /\ NumericThreshold)
        => /\ netProfitUsd = context.awardDrawFeeUsd - gasCostUsd
           /\ profitable <=> (netProfitUsd > Threshold)
           /\ netProfitUsd = Threshold => ~profitable

C5_Witness ==
    /\ PhaseTwo
    /\ Did("evaluate")
    /\ context.rngFeeEstimateUsd > 0
    /\ NumericThreshold
    /\ netProfitUsd = Threshold
    /\ ~profitable

\* the gas estimate requested for the cost raised, or answered zero units,
\* for a call that has its recipient
EstimateFailedOrZero ==
    /\ config.rewardRecipient # "undefined"
    /\ calls.estimateGas >= 1
    /\ (estimatedGasLimit = <<>> \/ estimatedGasLimit = <<0>>)

\* C6: when the gas estimate for the candidate transaction raises or answers
\* zero, the estimator answers gasCostUsd = 0 and raises nothing, and the
\* cycle ends without a dispatch (never profitable, whatever the reward).
C6_FailedEstimateIsZeroCost ==
    (EstimateFailedOrZero /\ pc # "idle")
        => /\ outcome = "CostUndeterminable"
           /\ error = "none"
           /\ gasCostUsd = 0
           /\ ~profitable
           /\ calls.sendPopulatedTx = 0

\* C7: a gasCostUsd of 0 ends the cycle as CostUndeterminable, with no profit
\* evaluation and no dispatch, in both phases, and in phase two also when
\* auctionClosesSoon holds.
C7_ZeroCostEndsCycle ==
    (Did("estimate") /\ gasCostUsd = 0)
        => /\ pc = "done"
           /\ outcome = "CostUndeterminable"
           /\ error = "none"
           /\ ~Did("evaluate")
           /\ ~forceAwardDraw
           /\ calls.sendPopulatedTx = 0

C7_Witness ==
    /\ PhaseTwo
    /\ NumericThreshold
    /\ context.auctionClosesSoon
    /\ context.awardDrawFeeUsd > Threshold
    /\ Did("estimate")
    /\ gasCostUsd = 0
    /\ outcome = "CostUndeterminable"

\* C8: with neither phase eligible (no drawAuctionState) the cycle returns
\* with no gas estimate requested, no gas price fetched and nothing sent.
C8_NoAuctionNoWork ==
    (Did("read") /\ ~context.canStartDraw /\ ~context.canAwardDraw)
        => /\ context.drawAuctionState = "None"
           /\ pc = "done"
           /\ outcome = "NoAuction"
           /\ calls.estimateGas = 0
           /\ calls.getGasPrice = 0
           /\ calls.getFeesUsd = 0
           /\ calls.sendPopulatedTx = 0

C8_Witness ==
    /\ Did("read")
    /\ context.missing = "none"
    /\ ~context.canStartDraw
    /\ ~context.canAwardDraw
    /\ outcome = "NoAuction"

\* the read raised, or answered a snapshot with a part missing
ContextUnavailable == calls.read = 1 /\ context.missing # "none"

\* C9: a context read that fails or answers an incomplete snapshot is
\* "no actionable auction": runDrawAuction raises nothing to its caller and
\* makes no gas estimate and no dispatch.
C9_ContextUnavailableIsNoAuction ==
    ContextUnavailable
        => /\ pc = "done"
           /\ outcome = "NoAuction"
           /\ error = "none"
           /\ calls.estimateGas = 0
           /\ calls.sendPopulatedTx = 0

\* a submission of this cycle raised
SubmissionRaised == \E i \in 1..Len(sentTx) : sentTx[i].result = "raised"

\* C10: when sendPopulatedTx raises, the error reaches the caller of
\* runDrawAuction and nothing is retried: the cycle is over with exactly one
\* invocation of sendPopulatedTx.
C10_SubmissionFailureSurfaces ==
    SubmissionRaised
        => /\ pc = "done"
           /\ outcome = "Raised"
           /\ error = "SubmissionFailed"
           /\ calls.sendPopulatedTx = 1
           /\ Len(sentTx) = 1

C10_Witness ==
    /\ SubmissionRaised
    /\ error = "SubmissionFailed"
    /\ calls.sendPopulatedTx = 1

----------------------------------------------------------------------------
(* The process over several cycles *)

\* a submission of this cycle was answered with a hash
SubmissionAccepted == \E i \in 1..Len(sentTx) : sentTx[i].result = "hash"

\* this cycle reads the snapshot the cycle before it read
SnapshotUnchanged == last # <<>> /\ last[1].context = context

\* C11, as the specification states it: a process never has more than one
\* transaction in flight (submitted and not confirmed), over any sequence of
\* cycles.
C11_AtMostOneInFlight == inFlight <= 1

\* C11: a cycle puts at most one transaction in flight, so a process has at
\* most as many in flight as it has run cycles; nothing of an unconfirmed
\* transaction is kept, and a cycle that starts before it is confirmed and
\* reads the same snapshot submits again.
C11_OneMoreInFlightPerCycle ==
    /\ inFlight <= cycle
    /\ ~SubmissionAccepted => inFlight <= cycle - 1
    /\ Len(sentTx) <= 1

C11_Witness ==
    /\ cycle = 2
    /\ SnapshotUnchanged
    /\ SubmissionAccepted
    /\ inFlight = 2

\* C12: the cycle run again on an unchanged snapshot, with collaborators that
\* answer as they did, gives the same phase, gasCostUsd, netProfitUsd,
\* profitable and forced flags and the same decision to dispatch.
C12_SameDecisionOnRerun ==
    (pc = "done" /\ SnapshotUnchanged) => Summary = last[1].summary

C12_Witness ==
    /\ pc = "done"
    /\ SnapshotUnchanged
    /\ PhaseTwo
    /\ forceAwardDraw
    /\ ~profitable
    /\ DispatchDecided
    /\ last[1].summary.dispatch
    /\ inFlight = 2

\* C13: a snapshot with a phase has exactly one of the two eligibilities, a
\* snapshot with neither has no phase, and a cycle runs the check of the
\* eligible phase only, never both checks.
C13_OnePhaseOnePath ==
    Did("read") =>
        /\ context.drawAuctionState # "None"
             => (context.canStartDraw # context.canAwardDraw)
        /\ (~context.canStartDraw /\ ~context.canAwardDraw)
             => context.drawAuctionState = "None"
        /\ ~(Did("checkStartDraw") /\ Did("checkAwardDraw"))
        /\ Did("checkStartDraw") => (context.canStartDraw /\ ~context.canAwardDraw)
        /\ Did("checkAwardDraw") => (context.canAwardDraw /\ ~context.canStartDraw)

C13_Witness ==
    /\ Did("checkAwardDraw")
    /\ Did("evaluate")
    /\ context.canAwardDraw
    /\ ~context.canStartDraw
    /\ ~Did("checkStartDraw")

\* C14: with a threshold that is not a number or without a recipient the
\* process stops at start-up: no cycle runs and nothing is submitted.
C14_MalformedConfigIsFatal ==
    Malformed(config)
        => /\ pc = "idle"
           /\ cycle = 1
           /\ calls.read = 0
           /\ sentTx = <<>>
           /\ inFlight = 0

\* C15: each of the five ways a cycle ends prints what no other prints: no
\* auction, cost undeterminable, not profitable, sent because profitable,
\* sent because forced.
C15_OutcomesToldApart ==
    pc = "done" =>
        /\ noAuctionReport \in report <=> outcome = "NoAuction"
        /\ costZeroReport \in report <=> outcome = "CostUndeterminable"
        /\ notProfitableReport \in report <=> outcome = "NotProfitable"
        /\ (sentReport \in report /\ profitReport(TRUE) \in report)
             <=> (outcome = "Sent" /\ profitable)
        /\ (sentReport \in report /\ profitReport(FALSE) \in report)
             <=> (outcome = "Sent" /\ ~profitable)
        /\ (outcome = "Sent" /\ ~profitable) => forceReport(TRUE) \in report

C15_Witness ==
    /\ pc = "done"
    /\ outcome = "Sent"
    /\ ~profitable
    /\ forceAwardDraw
    /\ sentReport \in report
    /\ profitReport(FALSE) \in report

\* steps is the beginning of: read, the check of one phase, estimate,
\* evaluate, send
StepsInOrder ==
    \E check \in {"checkStartDraw", "checkAwardDraw"} :
        LET order == <<"read", check, "estimate", "evaluate", "send">>
        IN  /\ Len(steps) <= Len(order)
            /\ \A i \in 1..Len(steps) : steps[i] = order[i]

\* C16: the steps of a cycle come in the order read, classify, estimate,
\* evaluate, dispatch, and sendPopulatedTx is invoked only after the read,
\* the estimate and the evaluation, and only on a positive decision.
C16_StepsInOrder ==
    /\ StepsInOrder
    /\ calls.sendPopulatedTx > 0
         => /\ Did("read")
            /\ Did("estimate")
            /\ Did("evaluate")
            /\ gasCostUsd # 0
            /\ profitable \/ forceAwardDraw

C16_Witness ==
    /\ config.variant = "finish"
    /\ calls.sendPopulatedTx = 1
    /\ steps = <<"read", "checkAwardDraw", "estimate", "evaluate", "send">>

\* C17: the gas estimate the cost is computed from is requested for the call
\* that is then dispatched: the same function with the same value.
C17_EstimateIsOfDispatchedCall ==
    \A i \in 1..Len(sentTx) :
        /\ Len(answers) >= 2
        /\ answers[2].call = "estimateGas"
        /\ answers[2].fn = sentTx[i].tx.fn
        /\ answers[2].value = sentTx[i].tx.value

\* C18: in both phases the gas units the cost is computed from are the
\* estimate of the RPC plus the buffer of 100,000.
C18_CostUnitsAreEstimatePlusBuffer ==
    (Did("estimate") /\ gasCostUsd # 0)
        => /\ calls.estimateGas >= 1
           /\ estimatedGasLimit # <<>>
           /\ costEstimate.gasUnits = estimatedGasLimit[1] + 100000

\* C19: the gas limit handed to sendPopulatedTx is the fixed ceiling of the
\* phase, 850,000 for startDraw and 800,000 for the second phase, whatever
\* the gas estimate.
C19_GasLimitIsFixedCeiling ==
    \A i \in 1..Len(sentTx) :
        sentTx[i].tx.gasLimit
            = (IF sentTx[i].tx.fn = "startDraw" THEN 850000 ELSE 800000)

----------------------------------------------------------------------------
(* C21: frame of a cycle *)

\* a call of runDrawAuction that has not started holds nothing
FreshCycle ==
    /\ context = NoContext
    /\ estimatedGasLimit = <<>>
    /\ costEstimate = NoEstimate
    /\ gasCostUsd = 0
    /\ netProfitUsd = 0
    /\ profitable = FALSE
    /\ forceAwardDraw = FALSE
    /\ answers = <<>>
    /\ calls = NoCalls
    /\ steps = <<>>

\* C21: a cycle reads the context once and first (the first collaborator
\* call of a cycle is the read, and there is no second read); the snapshot
\* every later step works on is the one that read answered; no step changes
\* the snapshot or the configuration; and a cycle that starts holds nothing
\* of the cycle before it (no snapshot, no estimate, no profit result).
C21_SnapshotReadOnceAndNotCarried ==
    [][/\ config' = config
       /\ (pc # "idle" /\ pc' # "idle") => context' = context
       /\ calls'.read <= 1
       /\ answers' # <<>> =>
            /\ answers'[1].call = "read"
            /\ calls'.read = 1
            /\ answers'[1].answer # <<>> => context' = answers'[1].answer[1]
       /\ pc' = "idle" => FreshCycle'
       /\ pc' # "idle" => answers' # <<>>]_vars

\* a second cycle has read its own snapshot and has decided on it
C21_Witness ==
    /\ cycle = 2
    /\ Did("evaluate")
    /\ answers[1].answer = <<context>>
    /\ calls.getGasPrice >= 1
    /\ gasCostUsd > 0

----------------------------------------------------------------------------
(* C22: phase one without an external randomness fee *)

\* the process runs drawAuction.ts on a chain without an RngWitnet contract
RngBlockhash == config.variant = "finish" /\ ~config.hasWitnet

----------------------------------------------------------------------------
(* C23: every cycle terminates, in one of five outcomes *)

Outcomes == {"NoAuction", "CostUndeterminable", "NotProfitable", "Sent", "Raised"}

\* the outcome of a cycle that is over is the one its trace shows
OutcomeIsWhatHappened ==
    /\ outcome \in Outcomes
    /\ outcome = "Raised" <=> error # "none"
    /\ outcome = "Sent" <=> SubmissionAccepted
    /\ outcome = "NoAuction" <=>
          (error = "none" /\ calls.read = 1 /\ ~PhaseOne /\ ~PhaseTwo)
    /\ outcome = "CostUndeterminable" <=>
          (error = "none" /\ Did("estimate") /\ ~Did("evaluate"))
    /\ outcome = "NotProfitable" <=>
          (error = "none" /\ Did("evaluate") /\ sentTx = <<>>)

\* C23: when every collaborator call returns or raises, every decision
\* cycle terminates, and a cycle that is over has exactly one of the
\* outcomes no auction, cost undeterminable, not profitable, transaction
\* submitted, error raised to the caller.
C23_CycleTerminates ==
    /\ [](pc = "done" => OutcomeIsWhatHappened)
    /\ [](pc # "done" => outcome = "running")
    /\ (pc # "done") ~> (pc = "done")

\* a cycle that had decided to dispatch is over because the gas price
\* query of the dispatcher raised
C23_Witness ==
    /\ pc = "done"
    /\ outcome = "Raised"
    /\ error = "GasPriceFailed"
    /\ DispatchDecided
    /\ sentTx = <<>>

----------------------------------------------------------------------------
(* C24: the value attached to startDraw *)

\* C24: a phase-one start transaction sent on a chain with an external
\* randomness fee carries exactly the snapshot's rngFeeEstimate as its
\* native value: the amount whose USD value, rngFeeEstimateUsd, was
\* subtracted in the net profit that authorised the dispatch.
C24_ValueIsRngFeeEstimate ==
    \A i \in 1..Len(sentTx) :
        (sentTx[i].tx.fn = "startDraw" /\ config.hasWitnet) =>
            /\ sentTx[i].tx.value = context.rngFeeEstimate
            /\ netProfitUsd =
                 context.startDrawFeeUsd - gasCostUsd - context.rngFeeEstimateUsd

----------------------------------------------------------------------------
(* C25: the private-relay flag *)

\* C25: the private-relay flag handed to sendPopulatedTx is the configured
\* useFlashbots for a phase-one (start) transaction and is false for a
\* phase-two (award / finish) transaction, whatever the configuration.
C25_PrivateRelayFlag ==
    \A i \in 1..Len(sentTx) :
        /\ sentTx[i].tx.fn = "startDraw"
              => sentTx[i].tx.useFlashbots = config.useFlashbots
        /\ sentTx[i].tx.fn \in {"awardDraw", "finishDraw"}
              => sentTx[i].tx.useFlashbots = FALSE

\* a process configured for the private relay has handed over a phase-two
\* transaction
C25_Witness ==
    /\ config.useFlashbots
    /\ \E i \in 1..Len(sentTx) :
          /\ sentTx[i].tx.fn \in {"awardDraw", "finishDraw"}
          /\ ~sentTx[i].tx.useFlashbots

----------------------------------------------------------------------------
(* C26: the gas price of the dispatch *)

\* the place of the cost computation among the calls of the cycle
FeesAt(f) == answers[f].call = "getFeesUsd"

\* C26: the gas price handed to sendPopulatedTx is the answer of a gas price
\* query of its own, made after the cost was computed and the decision
\* taken; a cycle that has decided to dispatch computes no second cost and
\* evaluates no second time, whatever that gas price is.
C26_GasPriceFetchedAtDispatch ==
    \A i \in 1..Len(answers) :
        answers[i].call = "sendPopulatedTx" =>
            /\ \E f \in 1..i, g \in 1..i :
                  /\ f < g
                  /\ FeesAt(f)
                  /\ answers[g].call = "getGasPrice"
                  /\ answers[g].answer = <<sentTx[Len(sentTx)].tx.gasPrice>>
            /\ calls.getGasPrice = 2
            /\ calls.getFeesUsd = 1
            /\ Cardinality({k \in 1..Len(steps) : steps[k] = "evaluate"}) = 1

\* a transaction was submitted at a gas price above the one of the cost
\* estimate, at which the auction would not have been found profitable
C26_Witness ==
    /\ SubmissionAccepted
    /\ PhaseTwo
    /\ NumericThreshold
    /\ ~forceAwardDraw
    /\ sentTx[1].tx.gasPrice > costEstimate.gasPriceWei
    /\ ~isProfitable(awardDrawNetProfitUsd(context.awardDrawFeeUsd,
                        getFeesUsd(costEstimate.gasUnits, sentTx[1].tx.gasPrice,
                                   context.nativeTokenMarketRateUsd)), config)

----------------------------------------------------------------------------
(* C27: the gas limit of the dispatch *)

\* the dispatcher of drawAuction.ts asked for a gas estimate of its own and
\* the estimator answered undefined
DispatchEstimateFailed ==
    \E f \in 1..Len(answers), e \in 1..Len(answers) :
        /\ f < e
        /\ FeesAt(f)
        /\ answers[e].call = "estimateGas"
        /\ answers[e].answer = <<>>

\* C27: every transaction handed to sendPopulatedTx carries a positive gas
\* limit of at least 100,000; when the gas estimate requested again at
\* dispatch time fails, the cycle raises before sendPopulatedTx is called
\* and nothing is submitted.
C27_GasLimitAtLeastBuffer ==
    /\ \A i \in 1..Len(sentTx) : sentTx[i].tx.gasLimit >= 100000
    /\ DispatchEstimateFailed =>
          /\ pc = "done"
          /\ outcome = "Raised"
          /\ error = "TypeError"
          /\ sentTx = <<>>
          /\ calls.sendPopulatedTx = 0

\* a dispatch was decided on a good estimate and the estimate of the
\* dispatcher failed
C27_Witness ==
    /\ DispatchDecided
    /\ estimatedGasLimit # <<>>
    /\ DispatchEstimateFailed
    /\ sentTx = <<>>

----------------------------------------------------------------------------
(* C28: the liquidator takes the pairs in order and stops at the first      *)
(* unprofitable one                                                         *)

----------------------------------------------------------------------------
(* C29: the liquidator swaps only above the threshold *)

----------------------------------------------------------------------------
(* C30: the minter *)

\* C30: runYieldVaultMintRate submits at most one mintRate transaction per
\* YieldVault contract, in list order, each only after the submission before
\* it returned a hash; the first submission that fails ends the run with an
\* error, and no later vault is taken up.
C30_OneMintRatePerVaultInOrder ==
    /\ Len(mintLog) <= Len(yieldVaultContracts)
    /\ \A k \in 1..Len(mintLog) :
          /\ mintLog[k].vault = yieldVaultContracts[k].address
          /\ k > 1 => mintLog[k - 1].sent = "hash"
          /\ mintLog[k].sent = "raised" =>
                /\ k = Len(mintLog)
                /\ mintPc = "done"
                /\ mintError = "SubmissionFailed"
          /\ Cardinality({j \in 1..Len(mintLog) :
                            /\ mintLog[j].vault = mintLog[k].vault
                            /\ mintLog[j].sent # "no"}) <= 1

\* of three vaults the first was submitted, the submission of the second
\* failed and the third was never taken up
C30_Witness ==
    /\ Len(yieldVaultContracts) = 3
    /\ Len(mintLog) = 2
    /\ mintLog[1].sent = "hash"
    /\ mintLog[2].sent = "raised"
    /\ mintPc = "done"
    /\ mintError = "SubmissionFailed"

====
